---------------------------- MODULE Spec2Model ----------------------------
(***************************************************************************)
(* Session memory and turn-processing pipeline of the therapist chat       *)
(* backend: src/src/controllers/chat.ts and src/src/models/ChatSession.ts. *)
(*                                                                         *)
(* chat.ts holds several revisions of the controller.  Two are modelled:   *)
(*   - the memory revision (chat.ts 536-1235): getSessionMemory,           *)
(*     analyzeMessageWithMemory, generateTherapeuticResponse, sendMessage, *)
(*     getSessionHistory, getChatSession, updateUserPreferences;           *)
(*   - the therapeutic revision (chat.ts 1236-1919): TextCleaner,          *)
(*     ProgressTracker and its sendMessage (here sendMessageTherapeutic).  *)
(*                                                                         *)
(* Text is a sequence of tokens; a token stands for a word or a phrase the *)
(* code's regular expressions look for.  JavaScript values that come out   *)
(* of JSON.parse are records [t, s, n, a]: the type tag, and the string,   *)
(* number and array payload (unused payloads hold "", 0, <<>>).            *)
(***************************************************************************)
EXTENDS Integers, Sequences, FiniteSets, TLC

\* ------------------------------------------------------------------ bounds
\* turns that reach the assessment step, over all sessions
MaxTurns == 2
\* preference updates, over all sessions
MaxPrefUpdates == 1
\* tokens of a generated reply handed to the text cleaner
MaxTextLen == 3
\* messages of a stored session in the rebuild specification
MaxStored == 2
\* turns of one session in the specification of long sessions
MaxGrowth == 13
\* calls of updateProgress, over all sessions
MaxRecorded == 3

\* ------------------------------------------------------- program constants
TrustInit == 50
TrustPerTurn == 3
ProgressPerTurn == 2
TrustPerPreference == 10
ScalarMax == 100
DefaultIntensity == 5
ResilienceBelow == 5
TrustPerRebuiltTurn == 2
ProgressPerRebuiltPair == 5

\* ------------------------------------------------------------- identities
Users == {"u1", "u2"}
\* "anon": the request carries no req.user; "ghost": an authenticated id
\* for which User.findById finds no document.
Callers == Users \cup {"anon", "ghost"}
SessionIds == {"s1", "s2"}
\* identifiers of requests: s9 is one no session ever has
RequestIds == SessionIds \cup {"s9"}
Statuses == {"active", "completed", "archived"}

\* ------------------------------------------------------- JavaScript values
JV(t, s, n, a) == [t |-> t, s |-> s, n |-> n, a |-> a]
Undef == JV("undefined", "", 0, <<>>)
Str(s) == JV("string", s, 0, <<>>)
Num(n) == JV("number", "", n, <<>>)
Arr(a) == JV("array", "", 0, a)
\* a nested object {primaryEmotion: s, intensity: n}
Obj(s, n) == JV("object", s, n, <<>>)

\* JavaScript truthiness, as `x || d` and `if (x)` test it
Truthy(v) ==
  CASE v.t = "undefined" -> FALSE
    [] v.t = "null" -> FALSE
    [] v.t = "string" -> v.s # ""
    [] v.t = "number" -> v.n # 0
    [] v.t = "boolean" -> v.n = 1
    [] OTHER -> TRUE

\* x || d
OrElse(v, d) == IF Truthy(v) THEN v ELSE d

\* x.slice exists on strings and arrays only; calling it elsewhere throws
HasSlice(v) == v.t \in {"string", "array"}

\* [...x.slice(0, 2)]: the elements pushed by push(...x.slice(0, 2)).
\* The strings of the model that stand where a list is expected have one
\* character, so the spread of the slice is that one character.
SpreadSlice2(v) ==
  IF v.t = "array" THEN SubSeq(v.a, 1, IF Len(v.a) < 2 THEN Len(v.a) ELSE 2)
  ELSE IF v.s = "" THEN <<>> ELSE <<Str(v.s)>>

\* x[0]
First(v) ==
  IF v.t = "array" THEN (IF Len(v.a) > 0 THEN v.a[1] ELSE Undef)
  ELSE IF v.t = "string" /\ v.s # "" THEN Str(v.s)
  ELSE Undef

\* x.length > 0
LengthPositive(v) ==
  CASE v.t = "array" -> Len(v.a) > 0
    [] v.t = "string" -> v.s # ""
    [] OTHER -> FALSE

\* x.join exists on arrays only
HasJoin(v) == v.t = "array"


\* ------------------------------------------------------------------- text
\* Tokens: "w" a plain word, "sp" whitespace, "(" and ")" parentheses,
\* "*" an asterisk, "ai" the phrase "as an AI", "so" the filler word "so",
\* "." terminal punctuation, "rx" a phrase naming a medication to
\* prescribe, "should" the phrase "You should", "long" a passage of more
\* than 150 characters.  An utterance may also hold "bye", a farewell.
TextTokens == {"w", "sp", "(", ")", "*", "ai", "so", ".", "rx", "should", "long"}

\* fixed lines of the code
FallbackListen == <<"fbListen", ".">>
FallbackHear == <<"fbHear", ".">>
FallbackThankYou == <<"fbThankYou", ".">>
FallbackListening == <<"fbListening", ".">>

Min(S) == CHOOSE x \in S : \A y \in S : x <= y

\* smallest index >= k holding token c; 0 when there is none
IndexFrom(text, c, k) ==
  LET S == {i \in k..Len(text) : text[i] = c}
  IN IF S = {} THEN 0 ELSE Min(S)

\* smallest index >= k where two adjacent tokens c start; 0 when none
PairFrom(text, c, k) ==
  LET S == {i \in k..(Len(text) - 1) : text[i] = c /\ text[i + 1] = c}
  IN IF S = {} THEN 0 ELSE Min(S)

Suffix(text, k) == SubSeq(text, k, Len(text))

RECURSIVE TrimLeft(_)
TrimLeft(text) ==
  IF text # <<>> /\ text[1] = "sp" THEN TrimLeft(Suffix(text, 2)) ELSE text

RECURSIVE TrimRight(_)
TrimRight(text) ==
  IF text # <<>> /\ text[Len(text)] = "sp"
  THEN TrimRight(SubSeq(text, 1, Len(text) - 1)) ELSE text

\* String.prototype.trim
Trim(text) == TrimRight(TrimLeft(text))

\* .replace(/\s+/g, ' ')
RECURSIVE CollapseSpaces(_)
CollapseSpaces(text) ==
  IF Len(text) < 2 THEN text
  ELSE IF text[1] = "sp" /\ text[2] = "sp" THEN CollapseSpaces(Suffix(text, 2))
  ELSE <<text[1]>> \o CollapseSpaces(Suffix(text, 2))

\* .replace(/\*\*(.*?)\*\*/g, '$1')
RECURSIVE StripDoubleStar(_)
StripDoubleStar(text) ==
  LET i == PairFrom(text, "*", 1)
      j == IF i = 0 THEN 0 ELSE PairFrom(text, "*", i + 2)
  IN IF j = 0 THEN text
     ELSE SubSeq(text, 1, i - 1) \o SubSeq(text, i + 2, j - 1)
          \o StripDoubleStar(Suffix(text, j + 2))

\* .replace(/\*(.*?)\*/g, '$1')
RECURSIVE StripSingleStar(_)
StripSingleStar(text) ==
  LET i == IndexFrom(text, "*", 1)
      j == IF i = 0 THEN 0 ELSE IndexFrom(text, "*", i + 1)
  IN IF j = 0 THEN text
     ELSE SubSeq(text, 1, i - 1) \o SubSeq(text, i + 1, j - 1)
          \o StripSingleStar(Suffix(text, j + 1))

\* .replace(/^[-*+]\s+/gm, ''): a list marker at the start of the text
StripListMarker(text) ==
  IF Len(text) >= 2 /\ text[1] = "*" /\ text[2] = "sp"
  THEN TrimLeft(Suffix(text, 2)) ELSE text

\* .replace(/\(.*?\)/g, ''); the bracket, brace and angle forms that
\* surround it in the code have the same shape
RECURSIVE StripParens(_)
StripParens(text) ==
  LET i == IndexFrom(text, "(", 1)
      j == IF i = 0 THEN 0 ELSE IndexFrom(text, ")", i + 1)
  IN IF j = 0 THEN text
     ELSE SubSeq(text, 1, i - 1) \o StripParens(Suffix(text, j + 1))

\* TextCleaner.ensureProperPunctuation
ensureProperPunctuation(text) ==
  IF text = <<>> THEN text
  ELSE IF text[Len(text)] = "." THEN text ELSE Append(text, ".")

\* TextCleaner.formatParagraphs: sentences are regrouped two to a
\* paragraph and each paragraph gets terminal punctuation.  Every sentence
\* but the last already ends in punctuation, so only the end of the text
\* can gain a "."; an empty text has no sentence and stays empty.  The
\* paragraph break replaces whitespace by whitespace.
formatParagraphs(text) == ensureProperPunctuation(Trim(text))

\* TextCleaner.cleanTherapeuticResponse
cleanTherapeuticResponse(text) ==
  IF text = <<>> THEN FallbackListen
  ELSE LET marked == StripListMarker(StripSingleStar(StripDoubleStar(text)))
           plain == Trim(CollapseSpaces(marked))
           cleaned == Trim(StripParens(plain))
       IN formatParagraphs(cleaned)

\* .replace(/^(okay|well|so|now|alright),?\s*/gi, '')
StripLeadingFiller(text) ==
  IF text # <<>> /\ text[1] = "so" THEN TrimLeft(Suffix(text, 2)) ELSE text

\* .replace(/as an ai(?: therapist)?/gi, '')
StripPersona(text) == SelectSeq(text, LAMBDA c : c # "ai")

\* TextCleaner.cleanTherapeuticContent (chat.ts, therapeutic revision)
cleanTherapeuticContent(text) ==
  Trim(StripPersona(StripLeadingFiller(cleanTherapeuticResponse(text))))

\* the chain of replaces of generateTherapeuticResponse: each known phrase
\* is replaced by another phrase
SoftenToken(c) == IF c = "should" THEN "could" ELSE c

Soften(text) == [i \in 1..Len(text) |-> SoftenToken(text[i])]

\* ------------------------------------------------- assessments and memory
\* The fields of an assessment object.  The first seven are those of
\* MessageAnalysis (memory revision), the next four those of CBTAssessment
\* (therapeutic revision); a field an object lacks is Undef.
Fields(es, i, pt, rl, st, cp, tf, er, rt, cd, at) ==
  [emotionalState |-> es, intensity |-> i, primaryThemes |-> pt,
   riskLevel |-> rl, specificTechniques |-> st, cognitivePatterns |-> cp,
   therapeuticFocus |-> tf,
   emotionalResponse |-> er, recommendedCbtTechniques |-> rt,
   cognitiveDistortions |-> cd, automaticThoughts |-> at]

\* {}
EmptyObject ==
  Fields(Undef, Undef, Undef, Undef, Undef, Undef, Undef,
         Undef, Undef, Undef, Undef)

\* the object returned by the catch block of analyzeMessageWithMemory
DefaultAnalysis ==
  Fields(Str("neutral"), Num(DefaultIntensity), Arr(<<Str("exploring thoughts")>>),
         Num(0), Arr(<<Str("active_listening")>>), Arr(<<>>),
         Str("emotional_processing"), Undef, Undef, Undef, Undef)

\* What the generative-text capability answers: the call throws, or it
\* returns a text.  The text is a payload, possibly inside a code fence:
\* "empty" no content, "garbage" text that is not JSON, "null" the JSON
\* null, "number" a JSON number, "object" a JSON object with fields obj.
Completion(kind, fenced, obj) == [kind |-> kind, fenced |-> fenced, obj |-> obj]

\* analysisText.replace(/```json|```/g, "").trim()
StripFence(c) == [c EXCEPT !.fenced = FALSE]

\* content?.trim() || "{}"
OrEmptyObject(c) ==
  IF c.kind = "empty" THEN Completion("object", FALSE, EmptyObject) ELSE c

\* JSON.parse: [ok] whether it returned, [isNull] whether the value is
\* null, [f] the properties a read of the value yields (a number has none)
JSONParse(c) ==
  IF c.fenced \/ c.kind \in {"garbage", "empty"}
  THEN [ok |-> FALSE, isNull |-> FALSE, f |-> EmptyObject]
  ELSE [ok |-> TRUE, isNull |-> (c.kind = "null"),
        f |-> IF c.kind = "object" THEN c.obj ELSE EmptyObject]

\* SessionMemory; an absent cache entry is NoMemory
NewMemory ==
  [present |-> TRUE,
   emotionalPatterns |-> <<>>, conversationThemes |-> <<>>,
   therapeuticTechniques |-> <<>>,
   emotionalAwareness |-> 0, copingSkills |-> 0,
   resilience |-> 0, selfReflection |-> 0,
   name |-> "", communicationStyle |-> "",
   lastEmotionalState |-> Str("neutral"),
   lastTechniqueUsed |-> Str("validation"),
   sessionProgress |-> 0, trustLevel |-> TrustInit]

NoMemory == [NewMemory EXCEPT !.present = FALSE]

\* parsedAnalysis.intensity && parsedAnalysis.intensity < 5; the strings
\* of the model are not numerals, so a string compares as NaN
IntensityLow(v) == v.t = "number" /\ v.n # 0 /\ v.n < ResilienceBelow

\* analyzeMessageWithMemory, from the answer of the completion call on:
\* [analysis] the object returned, [memory] the memory after the call.
\* Statements run in order, so a throw keeps the pushes made before it.
analyzeMessageWithMemory(c, memory) ==
  LET parsed == JSONParse(StripFence(OrEmptyObject(c)))
      p == parsed.f
      emotion == OrElse(p.emotionalState, Str("neutral"))
      m1 == [memory EXCEPT
               !.emotionalPatterns = Append(@, emotion),
               !.lastEmotionalState = emotion]
      themesThrow == Truthy(p.primaryThemes) /\ ~HasSlice(p.primaryThemes)
      m2 == IF Truthy(p.primaryThemes)
            THEN [m1 EXCEPT !.conversationThemes = @ \o SpreadSlice2(p.primaryThemes)]
            ELSE m1
      techThrow == Truthy(p.specificTechniques) /\ ~HasSlice(p.specificTechniques)
      m3 == IF Truthy(p.specificTechniques)
            THEN [m2 EXCEPT
                    !.therapeuticTechniques = @ \o SpreadSlice2(p.specificTechniques),
                    !.lastTechniqueUsed =
                       OrElse(First(p.specificTechniques), Str("validation"))]
            ELSE m2
      m4 == IF IntensityLow(p.intensity)
            THEN [m3 EXCEPT !.resilience = @ + 1] ELSE m3
      m5 == IF Truthy(p.cognitivePatterns) /\ LengthPositive(p.cognitivePatterns)
            THEN [m4 EXCEPT !.selfReflection = @ + 1] ELSE m4
      result ==
        Fields(OrElse(p.emotionalState, Str("reflective")),
               OrElse(p.intensity, Num(DefaultIntensity)),
               OrElse(p.primaryThemes, Arr(<<Str("exploring thoughts")>>)),
               OrElse(p.riskLevel, Num(0)),
               OrElse(p.specificTechniques, Arr(<<Str("active_listening")>>)),
               OrElse(p.cognitivePatterns, Arr(<<>>)),
               OrElse(p.therapeuticFocus, Str("emotional_processing")),
               Undef, Undef, Undef, Undef)
  IN IF c.kind = "throw" \/ parsed.isNull
     THEN [analysis |-> DefaultAnalysis, memory |-> memory]
     ELSE IF themesThrow THEN [analysis |-> DefaultAnalysis, memory |-> m1]
     ELSE IF techThrow THEN [analysis |-> DefaultAnalysis, memory |-> m2]
     ELSE [analysis |-> result, memory |-> m5]

\* generateTherapeuticResponse.  Building the prompt joins the theme and
\* technique lists, which throws before the call when one is not an array.
\* reply is a thrown call ("throw") or the returned text.
\* [text] the reply, [called] whether the completion call was made.
generateTherapeuticResponse(analysis, reply) ==
  IF ~HasJoin(analysis.primaryThemes) \/ ~HasJoin(analysis.specificTechniques)
  THEN [text |-> FallbackListening, called |-> FALSE]
  ELSE IF reply.kind = "throw"
  THEN [text |-> FallbackListening, called |-> TRUE]
  ELSE [text |-> Soften(IF Trim(reply.text) = <<>> THEN FallbackThankYou
                        ELSE Trim(reply.text)),
        called |-> TRUE]

\* ---------------------------------------------------- therapeutic revision
InsightAbove == 150
InsightIntensityBelow == 7

\* text.length, in characters: a token counts one character, but "long"
TokenChars(c) == IF c = "long" THEN InsightAbove + 1 ELSE 1

RECURSIVE TextLength(_)
TextLength(text) ==
  IF text = <<>> THEN 0 ELSE TokenChars(text[1]) + TextLength(Suffix(text, 2))

\* reading a property of undefined or null throws
Nullish(v) == v.t \in {"undefined", "null"}

\* ...x in a call spreads strings and arrays; other values are not iterable
Iterable(v) == v.t \in {"array", "string"}
Spread(v) ==
  IF v.t = "array" THEN v.a ELSE IF v.s = "" THEN <<>> ELSE <<Str(v.s)>>

\* emotionalResponse.intensity
Intensity(er) == IF er.t = "object" THEN Num(er.n) ELSE Undef

\* the fallback assessment of the catch block around JSON.parse
FallbackAssessment ==
  Fields(Undef, Undef, Undef, Undef, Undef, Undef, Undef,
         Obj("neutral", DefaultIntensity),
         Arr(<<Str("thought_challenging"), Str("mindfulness")>>),
         Arr(<<>>), Arr(<<Str("Assessment processing")>>))

\* TextCleaner.cleanJSONResponse
cleanJSONResponse(c) ==
  IF c.kind = "empty" THEN Completion("object", FALSE, EmptyObject)
  ELSE StripFence(c)

\* the safe JSON parsing of sendMessage (therapeutic revision), from the
\* returned completion on: [isNull] the value is null, [f] its properties
therapeuticAssessment(c) ==
  LET parsed == JSONParse(cleanJSONResponse(OrEmptyObject(c)))
  IN IF parsed.ok THEN [isNull |-> parsed.isNull, f |-> parsed.f]
     ELSE [isNull |-> FALSE, f |-> FallbackAssessment]

\* whether a statement between the parse and the reply call throws:
\* recommendedCbtTechniques[0], emotionalResponse.primaryEmotion,
\* cognitiveDistortions.join, automaticThoughts.join
contextThrows(a) ==
  \/ a.isNull
  \/ Nullish(a.f.recommendedCbtTechniques)
  \/ Nullish(a.f.emotionalResponse)
  \/ ~HasJoin(a.f.cognitiveDistortions)
  \/ ~HasJoin(a.f.automaticThoughts)

\* an entry of ProgressTracker.userProgress; an absent key is NoProgress.
\* lastAssessment holds the fields of the assessment, EmptyObject for null.
NewProgress ==
  [present |-> TRUE, sessionCount |-> 0, emotionalIntensityTrend |-> <<>>,
   techniquesUsed |-> <<>>, insightMoments |-> 0, lastAssessment |-> EmptyObject]

NoProgress == [NewProgress EXCEPT !.present = FALSE]

\* ProgressTracker.updateProgress: [thrown] whether the spread threw,
\* [progress] the entry it leaves in the map
updateProgress(entry, f, responseLength) ==
  LET p0 == IF entry.present THEN entry ELSE NewProgress
      intensity == Intensity(f.emotionalResponse)
      p1 == [p0 EXCEPT !.sessionCount = @ + 1,
                       !.emotionalIntensityTrend = Append(@, intensity)]
      p2 == [p1 EXCEPT !.techniquesUsed = @ \o Spread(f.recommendedCbtTechniques),
                       !.lastAssessment = f]
      p3 == IF /\ responseLength > InsightAbove
               /\ intensity.t = "number"
               /\ intensity.n < InsightIntensityBelow
            THEN [p2 EXCEPT !.insightMoments = @ + 1] ELSE p2
  IN IF Nullish(f.emotionalResponse)
     THEN [thrown |-> TRUE, progress |-> [p0 EXCEPT !.sessionCount = @ + 1]]
     ELSE IF Iterable(f.recommendedCbtTechniques)
     THEN [thrown |-> FALSE, progress |-> p3]
     ELSE [thrown |-> TRUE, progress |-> p1]

\* the sum of the numbers of a list
RECURSIVE SumOfNumbers(_)
SumOfNumbers(list) ==
  IF list = <<>> THEN 0 ELSE Head(list).n + SumOfNumbers(Tail(list))

\* the most recent intensity is compared with an intensity of the middle
\* of the list (not the code's)
TrendAgainstAverage(trend) ==
  IF /\ trend # <<>>
     /\ trend[Len(trend)].t = "number"
     /\ trend[(Len(trend) + 1) \div 2].t = "number"
     /\ trend[Len(trend)].n < trend[(Len(trend) + 1) \div 2].n
  THEN "improving" ELSE "stable"

\* trend[trend.length - 1] < trend[0] ? 'improving' : 'stable'; a
\* comparison with undefined is false
Trend(trend) ==
  IF /\ trend # <<>>
     /\ trend[Len(trend)].t = "number"
     /\ trend[1].t = "number"
     /\ trend[Len(trend)].n < trend[1].n
  THEN "improving" ELSE "stable"

\* the size of the list, duplicates counted (not the code's)
CountAll(list) == Len(list)

\* new Set(list).size
SetSize(list) == Cardinality({list[k] : k \in 1..Len(list)})

\* ProgressTracker.getProgressSummary: [isNull] whether it returned null.
\* The average is in tenths, averageIsNaN when the list is empty or holds
\* a value that is not a number.
getProgressSummary(entry) ==
  LET trend == entry.emotionalIntensityTrend
      numbers == \A k \in 1..Len(trend) : trend[k].t = "number"
      isNaN == trend = <<>> \/ ~numbers
  IN [isNull |-> ~entry.present,
      sessionsCompleted |-> entry.sessionCount,
      averageIsNaN |-> isNaN,
      averageTenths |->
        IF isNaN THEN 0
        ELSE (20 * SumOfNumbers(trend) + Len(trend)) \div (2 * Len(trend)),
      techniquesExperienced |-> SetSize(entry.techniquesUsed),
      insightMoments |-> entry.insightMoments,
      trend |-> Trend(trend)]

\* answers of the completion call of the reply step
Reply(kind, text) == [kind |-> kind, text |-> text]
RThrow == Reply("throw", <<>>)

\* the reply step of sendMessage (therapeutic revision), from the answer
\* of the completion call on: [thrown] the call threw, [text] the reply
respondTherapeutic(reply) ==
  IF reply.kind = "throw" THEN [thrown |-> TRUE, text |-> <<>>]
  ELSE [thrown |-> FALSE,
        text |-> cleanTherapeuticContent(IF Trim(reply.text) = <<>>
                                         THEN FallbackHear ELSE Trim(reply.text))]

\* ------------------------------------------------------------------ state
VARIABLES
  db,               \* ChatSession collection: session id -> document
  usedIds,          \* identifiers uuidv4 has handed out
  timers,           \* sessions with a pending auto-delete timer
  sessionMemories,  \* the Map of the memory revision: id -> SessionMemory
  userProgress,     \* ProgressTracker.userProgress: id -> accumulator
  prefUpdates,      \* preference updates made so far (bounds the model)
  last,             \* the response to the request just handled
  genExtract,       \* assessment step alone: the completion handed to it
  analyzeOut,       \* assessment step alone: what it returned
  genReply,         \* reply step alone: the completion handed to it
  respOut,          \* reply step alone: what it returned
  recorded,         \* id -> the assessments handed to updateProgress so far
  calls,            \* handler invocation -> where it stands in sendMessage
  deleting          \* sessions a timer callback has re-read and will delete

vars == <<db, usedIds, timers, sessionMemories, userProgress, prefUpdates,
          last, genExtract, analyzeOut, genReply, respOut, recorded, calls, deleting>>

\* what a handler taken as one step leaves alone: the variables of the two
\* single-step specifications, the record of the progress tracker's calls,
\* and the handler invocations and timer callbacks taken await by await
steps == <<genExtract, analyzeOut, genReply, respOut, recorded, calls, deleting>>

Message(role, content, analysis) ==
  [role |-> role, content |-> content, analysis |-> analysis]

NoSession ==
  [present |-> FALSE, userId |-> "", status |-> "active", messages |-> <<>>,
   isEmptySession |-> FALSE]

\* no cap: the raised value is kept as it is (not the code's)
Uncapped(a, b) == b

\* Math.min(a, b)
Min2(a, b) == IF a < b THEN a ELSE b

\* every key of the map shares one entry (not the code's)
PutEvery(map, key, value) == [k \in DOMAIN map |-> value]

\* Map.set(key, value), and a mutation of the object held under the key
Put(map, key, value) == [map EXCEPT ![key] = value]

\* utterances: req.body.message as a JavaScript value
Utterance(t, text) == [t |-> t, text |-> text]
MissingUtterance == Utterance("undefined", <<>>)
InvalidUtterances ==
  {MissingUtterance, Utterance("number", <<>>), Utterance("string", <<>>)}
BlankUtterance == Utterance("string", <<"sp">>)
ValidUtterances == {Utterance("string", <<"w">>), Utterance("string", <<"bye">>)}
Utterances == InvalidUtterances \cup {BlankUtterance} \cup ValidUtterances

\* !message || typeof message !== 'string'
RejectsMessage(u) == u.t # "string" \/ u.text = <<>>

\* chatMessageSchema: content is trimmed by the setter, then required and
\* minlength 1 are validated
StoredContent(text) == Trim(text)
ContentValid(text) == StoredContent(text) # <<>>

\* some message of the document has content left after trimming
HasValidMessages(doc) ==
  \E k \in 1..Len(doc.messages) : Trim(doc.messages[k].content) # <<>>

\* a pre-save hook that refuses a document without messages or without a
\* message with content (not the code's)
preSaveRequiresMessages(doc, isNew) ==
  [rejected |-> ~HasValidMessages(doc), doc |-> doc]

\* chatSessionSchema.pre("save") of a document whose messages were set:
\* [rejected] whether it passes an error to next, [doc] the document saved
preSave(doc, isNew) ==
  IF isNew /\ doc.messages = <<>>
  THEN [rejected |-> FALSE, doc |-> [doc EXCEPT !.isEmptySession = TRUE]]
  ELSE [rejected |-> FALSE,
        doc |-> [doc EXCEPT !.isEmptySession = ~HasValidMessages(doc)]]

\* an owner check that lets every caller through (not the code's)
OwnsAnyone(doc, caller) == TRUE

\* session.userId.toString() === userId.toString()
Owns(doc, caller) == doc.userId = caller

\* a pair put in front of the stored messages (not the code's)
AppendPairFront(messages, userMessage, assistantMessage) ==
  <<userMessage, assistantMessage>> \o messages

\* session.messages.push(userMessage); session.messages.push(assistantMessage)
AppendPair(messages, userMessage, assistantMessage) ==
  messages \o <<userMessage, assistantMessage>>

\* a save that also sets the status back to active (not the code's)
SaveTurnReopens(doc, userMessage, assistantMessage) ==
  [doc EXCEPT !.messages = AppendPair(@, userMessage, assistantMessage),
              !.isEmptySession = FALSE, !.status = "active"]

\* session.save() of a turn: the document it leaves in the collection (the
\* pre-save hook clears the empty-session flag once messages exist)
SaveTurn(doc, userMessage, assistantMessage) ==
  [doc EXCEPT !.messages = AppendPair(@, userMessage, assistantMessage),
              !.isEmptySession = FALSE]

\* how many of the indicator strings hold the word
CountIndicators(v, word) ==
  IF v.t = "array" THEN Cardinality({k \in 1..Len(v.a) : v.a[k].s = word}) ELSE 0

\* whether a stored content holds the phrase
Holds(content, c) == \E k \in 1..Len(content) : content[k] = c

\* analysis.name in the rebuild: the assessments of earlier revisions
\* carry fields (emotion, themes, mainThoughts, recommendedTechniques,
\* technique, progressIndicators) that those of the modelled revisions lack
Field(a, name) == IF name \in DOMAIN a THEN a[name] ELSE Undef

\* one forEach step of the rebuild in getSessionMemory (message i).  The
\* theme, technique and indicator fields of stored metadata are lists or
\* absent.  A content token "iam" is the self-introduction "I am Sam", a
\* token "direct" the request "be direct"; stated goals are not modelled.
RebuildStep(memory, messages, i) ==
  LET a == messages[i].analysis
      emotion == OrElse(Field(a, "emotion"), a.emotionalState)
      themes == OrElse(Field(a, "themes"), OrElse(Field(a, "mainThoughts"), Arr(<<>>)))
      hasThemes == Truthy(Field(a, "themes")) \/ Truthy(Field(a, "mainThoughts"))
      techniques == OrElse(Field(a, "recommendedTechniques"), Arr(<<Field(a, "technique")>>))
      hasTechniques ==
        Truthy(Field(a, "recommendedTechniques")) \/ Truthy(Field(a, "technique"))
      indicators == IF Truthy(Field(a, "progressIndicators"))
                    THEN Field(a, "progressIndicators") ELSE Undef
      isUser == messages[i].role = "user"
      trusted == messages[i].role = "assistant" /\ i > 1 /\ messages[i - 1].role = "user"
  IN [memory EXCEPT
        !.emotionalPatterns = IF Truthy(emotion) THEN Append(@, emotion) ELSE @,
        !.lastEmotionalState = IF Truthy(emotion) THEN emotion ELSE @,
        !.conversationThemes = IF hasThemes THEN @ \o SpreadSlice2(themes) ELSE @,
        !.therapeuticTechniques =
           IF hasTechniques THEN @ \o SpreadSlice2(techniques) ELSE @,
        !.lastTechniqueUsed =
           IF Truthy(Field(a, "technique")) THEN Field(a, "technique") ELSE @,
        !.emotionalAwareness = @ + CountIndicators(indicators, "awareness"),
        !.copingSkills = @ + CountIndicators(indicators, "coping"),
        !.selfReflection = @ + CountIndicators(indicators, "reflection"),
        !.resilience = @ + CountIndicators(indicators, "resilience"),
        !.name = IF isUser /\ Holds(messages[i].content, "iam") /\ @ = ""
                 THEN "Sam" ELSE @,
        !.communicationStyle =
           IF isUser /\ Holds(messages[i].content, "direct") THEN "direct" ELSE @,
        !.trustLevel = IF trusted THEN Min2(ScalarMax, @ + TrustPerRebuiltTurn) ELSE @]

RECURSIVE RebuildFrom(_, _, _)
RebuildFrom(memory, messages, i) ==
  IF i > Len(messages) THEN memory
  ELSE RebuildFrom(RebuildStep(memory, messages, i), messages, i + 1)

\* the fold of the rebuild starts from the memory of a session already in
\* the cache (not the code's)
RebuildMemoryAccumulating(doc) ==
  LET cached == {sid \in SessionIds : sessionMemories[sid].present}
      start == IF cached = {} THEN NewMemory
               ELSE sessionMemories[CHOOSE sid \in cached : TRUE]
  IN IF doc.present /\ Len(doc.messages) > 0
     THEN RebuildFrom(start, doc.messages, 1)
     ELSE NewMemory

\* the cache-miss branch of getSessionMemory
RebuildMemory(doc) ==
  IF doc.present /\ Len(doc.messages) > 0
  THEN [RebuildFrom(NewMemory, doc.messages, 1) EXCEPT
          !.sessionProgress =
             Min2(ScalarMax, (Len(doc.messages) * ProgressPerRebuiltPair) \div 2)]
  ELSE NewMemory

\* ChatSession.findOne({ sessionId })
Doc(store, sid) == IF sid \in SessionIds THEN store[sid] ELSE NoSession

\* getSessionMemory reads the collection on a cache hit too (not the code's)
ReadsStoreAlways(cache, sid) == TRUE

\* whether getSessionMemory reads the collection: only on a cache miss
ReadsStore(cache, sid) == ~cache[sid].present

\* getSessionMemory: the memory it returns (and leaves in the cache)
getSessionMemory(cache, store, sid) ==
  IF cache[sid].present THEN cache[sid] ELSE RebuildMemory(Doc(store, sid))

\* ------------------------------------------------------------- responses
\* The response to the request just handled: the handler, the HTTP status,
\* and the parts of the body the properties read (sessionId of a created
\* session, reply and assessment of a turn, messages of a history; gaveData
\* is whether the body carries session messages or memory).  extractCalled
\* and replyCalled record whether the handler made the completion call of
\* the assessment step and of the reply step.
NoLast ==
  [op |-> "none", code |-> 0, sessionId |-> "",
   extractCalled |-> FALSE, replyCalled |-> FALSE,
   reply |-> <<>>, analysis |-> EmptyObject, messages |-> <<>>,
   gaveData |-> FALSE]

Response(op, code) == [NoLast EXCEPT !.op = op, !.code = code]

\* the response of a turn that got as far as the completion calls
Ran(code, extractCalled, replyCalled) ==
  [Response("sendMessage", code) EXCEPT
     !.extractCalled = extractCalled, !.replyCalled = replyCalled]

\* ---------------------------------------------------------------- inputs
\* answers of the completion call of the assessment step
XThrow == Completion("throw", FALSE, EmptyObject)
XGarbage == Completion("garbage", FALSE, EmptyObject)
XEmpty == Completion("empty", FALSE, EmptyObject)
FullObject ==
  Fields(Str("anxious"), Num(7), Arr(<<Str("exam"), Str("sleep"), Str("family")>>),
         Num(2), Arr(<<Str("grounding"), Str("self_compassion")>>),
         Arr(<<Str("catastrophizing")>>), Str("cognitive_work"),
         Obj("anxious", 7), Arr(<<Str("mindfulness")>>),
         Arr(<<Str("catastrophizing")>>), Arr(<<Str("I will fail")>>))
XFull == Completion("object", TRUE, FullObject)

\* the answers the turn-processing specifications draw from
Extractions == {XFull}
Replies == {Reply("text", <<"w">>)}
Preferences == {[name |-> "Sam", communicationStyle |-> ""]}
TherapeuticExtractions == {XThrow, XGarbage, XEmpty, XFull}
TherapeuticReplies ==
  {RThrow, Reply("text", <<"w">>), Reply("text", <<"(", "w", ")">>)}

\* the answers the assessment step alone is given: the non-object answers,
\* and objects whose fields are absent, well typed or wrongly typed
AnalyzeObjects ==
  {Fields(es, i, pt, Num(2), st, cp, Str("cognitive_work"), er, rt, cd,
          Arr(<<Str("I will fail")>>)) :
     es \in {Undef, Str("anxious")},
     i \in {Undef, Num(3), Str("high")},
     pt \in {Undef, Arr(<<Str("exam"), Str("sleep"), Str("family")>>), Num(5)},
     st \in {Arr(<<Str("grounding")>>), Str("x"), JV("boolean", "", 1, <<>>)},
     cp \in {Undef, Arr(<<Str("catastrophizing")>>)},
     er \in {Undef, Obj("anxious", 7)},
     rt \in {Undef, Arr(<<Str("mindfulness")>>), Num(5)},
     cd \in {Arr(<<>>), Str("x")}}
AnalyzeInputs ==
  {XThrow, XGarbage, XEmpty, Completion("null", FALSE, EmptyObject),
   Completion("number", FALSE, EmptyObject)}
    \cup {Completion("object", fenced, obj) :
            fenced \in BOOLEAN, obj \in AnalyzeObjects}

\* the answers the reply step alone is given: a thrown call, or any text
\* of at most MaxTextLen tokens
Texts == UNION {[1..n -> TextTokens] : n \in 0..MaxTextLen}
RespondInputs == {RThrow} \cup {Reply("text", text) : text \in Texts}

\* -------------------------------------------------------- model's bounds
RECURSIVE SumOver(_, _)
SumOver(f, S) ==
  IF S = {} THEN 0
  ELSE LET x == CHOOSE y \in S : TRUE IN f[x] + SumOver(f, S \ {x})

TotalMessages == SumOver([sid \in SessionIds |-> Len(db[sid].messages)], SessionIds)
TurnAllowed ==
  /\ TotalMessages < 2 * MaxTurns
  /\ SumOver([sid \in RequestIds |-> Len(sessionMemories[sid].emotionalPatterns)],
             RequestIds) < MaxTurns
TherapeuticTurnAllowed ==
  /\ TotalMessages < 2 * MaxTurns
  /\ SumOver([sid \in SessionIds |-> userProgress[sid].sessionCount], SessionIds)
       < MaxTurns

\* ---------------------------------------------------------------- actions
NoAnalyzeOut ==
  [done |-> FALSE,
   memoryRevision |-> [analysis |-> EmptyObject, memory |-> NoMemory],
   therapeutic |-> [thrown |-> FALSE, isNull |-> FALSE, f |-> EmptyObject]]

NoRespOut ==
  [done |-> FALSE,
   memoryRevision |-> [text |-> <<>>, called |-> FALSE],
   therapeutic |-> [thrown |-> FALSE, text |-> <<>>]]

\* concurrent invocations of sendMessage
Handlers == {"h1", "h2"}

\* an invocation that has not started or has responded
NoCall == [pc |-> "idle"]

\* An invocation past the checks of sendMessage.  pc is the await it stands
\* at ("hydrate" the findOne of getSessionMemory, "extract" and "reply" the
\* completion calls), settled whether the awaited call has returned or
\* thrown, extraction and reply what the calls settled with, analysis what
\* analyzeMessageWithMemory returned (Undef until known), seen the number of
\* messages of the document its findOne returned.  The SessionMemory it
\* holds is the cached object, or, once another invocation has put a new
\* object in the cache (detached), the object own that only it refers to.
Call(pc, sid, text, seen) ==
  [pc |-> pc, sid |-> sid, text |-> text, seen |-> seen, settled |-> FALSE,
   extraction |-> Undef, reply |-> Undef, analysis |-> Undef,
   detached |-> FALSE, own |-> NoMemory]

\* the process has just started: both in-process maps are empty
InitProcess ==
  /\ usedIds = {sid \in SessionIds : db[sid].present}
  /\ timers = {}
  /\ sessionMemories = [sid \in RequestIds |-> NoMemory]
  /\ userProgress = [sid \in SessionIds |-> NoProgress]
  /\ prefUpdates = 0
  /\ last = NoLast
  /\ recorded = [sid \in SessionIds |-> <<>>]
  /\ calls = [h \in Handlers |-> NoCall]
  /\ deleting = {}

\* The collection holds one session of u1 that an earlier run of the
\* process created (its timer ended with that run); an external
\* collaborator may have set its status since.
Init ==
  /\ \E st \in Statuses :
       db = [sid \in SessionIds |->
               IF sid = "s1"
               THEN [present |-> TRUE, userId |-> "u1", status |-> st,
                     messages |-> <<>>, isEmptySession |-> TRUE]
               ELSE NoSession]
  /\ InitProcess
  /\ genExtract = XThrow
  /\ analyzeOut = NoAnalyzeOut
  /\ genReply = RThrow
  /\ respOut = NoRespOut

\* createChatSession (memory revision).  The pre-save hook flags the new
\* empty document and the post-save hook starts its auto-delete timer.
CreateChatSession(caller) ==
  /\ UNCHANGED <<userProgress, prefUpdates, steps>>
  /\ IF caller = "anon"
     THEN /\ last' = Response("createChatSession", 401)
          /\ UNCHANGED <<db, usedIds, timers, sessionMemories>>
     ELSE IF caller \notin Users
     THEN /\ last' = Response("createChatSession", 404)
          /\ UNCHANGED <<db, usedIds, timers, sessionMemories>>
     ELSE \E sid \in SessionIds \ usedIds :
            LET new == [present |-> TRUE, userId |-> caller, status |-> "active",
                        messages |-> <<>>, isEmptySession |-> FALSE]
                hooked == preSave(new, TRUE)
                store == [db EXCEPT ![sid] = hooked.doc]
            IN /\ usedIds' = usedIds \cup {sid}
               /\ IF hooked.rejected
                  THEN /\ last' = Response("createChatSession", 500)
                       /\ UNCHANGED <<db, timers, sessionMemories>>
                  ELSE /\ db' = store
                       /\ timers' = timers \cup {sid}
                       /\ sessionMemories' =
                            Put(sessionMemories, sid,
                                getSessionMemory(sessionMemories, store, sid))
                       /\ last' = [Response("createChatSession", 201) EXCEPT
                                     !.sessionId = sid]

\* the timer callback of the post-save hook
TimerFire(sid) ==
  /\ sid \in timers
  /\ timers' = timers \ {sid}
  /\ db' = IF db[sid].present /\ db[sid].isEmptySession
           THEN [db EXCEPT ![sid] = NoSession] ELSE db
  /\ UNCHANGED <<usedIds, sessionMemories, userProgress, prefUpdates, last, steps>>

\* what the persistence collaborator does during one turn: it works, or
\* the findOne of the handler, the findOne of getSessionMemory, or the
\* save of the pair rejects
StoreOutcomes == {"ok", "findFails", "rebuildFails", "saveFails"}

\* a failure response that carries a fallback reply (not the code's)
MaskedFailure(extractCalled, replyCalled) ==
  [Ran(200, extractCalled, replyCalled) EXCEPT !.reply = FallbackListening]

\* a turn that failed is answered as if it had been saved (not the code's)
AnsweredAnyway(extractCalled, replyCalled) ==
  [Ran(200, extractCalled, replyCalled) EXCEPT !.gaveData = TRUE]

\* the catch block of sendMessage
HardFailure(extractCalled, replyCalled) == Ran(500, extractCalled, replyCalled)

\* sendMessage (memory revision).  The answers of the two completion calls
\* are inputs of the pipeline.  save validates the pushed messages
\* (chatMessageSchema) and appends them to the stored array.  A rejected
\* read or write reaches the catch block; getSessionMemory reads the
\* collection only on a cache miss.
SendTurnWithin(caller, sid, utter, store, allowed) ==
  LET doc == Doc(db, sid)
  IN /\ UNCHANGED <<usedIds, timers, userProgress, prefUpdates, steps>>
     /\ IF caller = "anon"
        THEN /\ last' = Response("sendMessage", 401)
             /\ UNCHANGED <<db, sessionMemories>>
        ELSE IF RejectsMessage(utter)
        THEN /\ last' = Response("sendMessage", 400)
             /\ UNCHANGED <<db, sessionMemories>>
        ELSE IF store = "findFails"
        THEN /\ last' = HardFailure(FALSE, FALSE)
             /\ UNCHANGED <<db, sessionMemories>>
        ELSE IF ~doc.present
        THEN /\ last' = Response("sendMessage", 404)
             /\ UNCHANGED <<db, sessionMemories>>
        ELSE IF ~Owns(doc, caller)
        THEN /\ last' = Response("sendMessage", 403)
             /\ UNCHANGED <<db, sessionMemories>>
        ELSE IF store = "rebuildFails" /\ ReadsStore(sessionMemories, sid)
        THEN /\ last' = HardFailure(FALSE, FALSE)
             /\ UNCHANGED <<db, sessionMemories>>
        ELSE /\ allowed
             /\ \E ext \in Extractions, rep \in Replies :
                  LET memory == getSessionMemory(sessionMemories, db, sid)
                      r == analyzeMessageWithMemory(ext, memory)
                      g == generateTherapeuticResponse(r.analysis, rep)
                      userMessage ==
                        Message("user", StoredContent(utter.text), r.analysis)
                      assistantMessage ==
                        Message("assistant", StoredContent(g.text), r.analysis)
                      saved == /\ store # "saveFails"
                               /\ ContentValid(utter.text)
                               /\ ContentValid(g.text)
                  IN IF saved
                     THEN /\ db' = [db EXCEPT ![sid] =
                                      SaveTurn(@, userMessage, assistantMessage)]
                          /\ sessionMemories' =
                               Put(sessionMemories, sid,
                                  [r.memory EXCEPT
                                     !.trustLevel = Min2(ScalarMax, @ + TrustPerTurn),
                                     !.sessionProgress =
                                        Min2(ScalarMax, @ + ProgressPerTurn)])
                          /\ last' = [Ran(200, TRUE, g.called) EXCEPT
                                        !.reply = g.text, !.analysis = r.analysis,
                                        !.gaveData = TRUE]
                     ELSE /\ db' = db
                          /\ sessionMemories' =
                               Put(sessionMemories, sid, r.memory)
                          /\ last' = HardFailure(TRUE, g.called)

\* sendMessage within the turns the specifications of short sessions explore
SendTurn(caller, sid, utter, store) ==
  SendTurnWithin(caller, sid, utter, store, TurnAllowed)

\* sendMessage while the persistence collaborator works
SendMessage(caller, sid, utter) == SendTurn(caller, sid, utter, "ok")

\* getSessionHistory (memory revision)
GetSessionHistory(caller, sid) ==
  LET doc == Doc(db, sid)
  IN /\ UNCHANGED <<db, usedIds, timers, userProgress, prefUpdates, steps>>
     /\ IF caller = "anon"
        THEN /\ last' = Response("getSessionHistory", 401)
             /\ UNCHANGED sessionMemories
        ELSE IF ~doc.present
        THEN /\ last' = Response("getSessionHistory", 404)
             /\ UNCHANGED sessionMemories
        ELSE IF ~Owns(doc, caller)
        THEN /\ last' = Response("getSessionHistory", 403)
             /\ UNCHANGED sessionMemories
        ELSE /\ sessionMemories' =
                  Put(sessionMemories, sid,
                      getSessionMemory(sessionMemories, db, sid))
             /\ last' = [Response("getSessionHistory", 200) EXCEPT
                           !.messages = doc.messages, !.gaveData = TRUE]

\* getChatSession (memory revision): reads neither req.user nor the owner
GetChatSession(caller, sid) ==
  LET doc == Doc(db, sid)
  IN /\ UNCHANGED <<db, usedIds, timers, userProgress, prefUpdates, steps>>
     /\ IF ~doc.present
        THEN /\ last' = Response("getChatSession", 404)
             /\ UNCHANGED sessionMemories
        ELSE /\ sessionMemories' =
                  Put(sessionMemories, sid,
                      getSessionMemory(sessionMemories, db, sid))
             /\ last' = [Response("getChatSession", 200) EXCEPT
                           !.messages = doc.messages, !.gaveData = TRUE]

\* updateUserPreferences: no session lookup and no owner check
UpdateUserPreferencesWithin(caller, sid, preferences, allowed) ==
  LET memory == getSessionMemory(sessionMemories, db, sid)
      named == IF preferences.name # ""
               THEN [memory EXCEPT !.name = preferences.name] ELSE memory
      styled == IF preferences.communicationStyle # ""
                THEN [named EXCEPT !.communicationStyle = preferences.communicationStyle]
                ELSE named
  IN /\ UNCHANGED <<db, usedIds, timers, userProgress, steps>>
     /\ IF caller = "anon"
        THEN /\ last' = Response("updateUserPreferences", 401)
             /\ UNCHANGED <<sessionMemories, prefUpdates>>
        ELSE /\ allowed
             /\ prefUpdates' = prefUpdates + 1
             /\ sessionMemories' =
                  Put(sessionMemories, sid,
                     [styled EXCEPT
                        !.trustLevel = Min2(ScalarMax, @ + TrustPerPreference)])
             /\ last' = [Response("updateUserPreferences", 200) EXCEPT
                           !.gaveData = TRUE]

\* updateUserPreferences within the updates the specifications explore
UpdateUserPreferences(caller, sid, preferences) ==
  UpdateUserPreferencesWithin(caller, sid, preferences,
                              prefUpdates < MaxPrefUpdates)

Requesters == Users \cup {"anon"}

Next ==
  \/ \E caller \in Callers : CreateChatSession(caller)
  \/ \E sid \in SessionIds : TimerFire(sid)
  \/ \E caller \in Requesters, sid \in RequestIds, utter \in Utterances :
       SendMessage(caller, sid, utter)
  \/ \E caller \in Requesters, sid \in RequestIds : GetSessionHistory(caller, sid)
  \/ \E caller \in Requesters, sid \in RequestIds : GetChatSession(caller, sid)
  \/ \E caller \in Requesters, sid \in RequestIds, preferences \in Preferences :
       UpdateUserPreferences(caller, sid, preferences)

\* the memory revision of the controller
Spec == Init /\ [][Next]_vars

\* the memory revision with a persistence collaborator that may fail
NextStore ==
  \/ \E caller \in Callers : CreateChatSession(caller)
  \/ \E caller \in Requesters, sid \in RequestIds,
        utter \in ValidUtterances \cup {MissingUtterance},
        store \in StoreOutcomes :
       SendTurn(caller, sid, utter, store)

SpecStore == Init /\ [][NextStore]_vars

\* -------------------------------------------- therapeutic revision: actions
\* createChatSession (therapeutic revision)
CreateChatSessionTherapeutic(caller) ==
  /\ UNCHANGED <<sessionMemories, userProgress, prefUpdates, steps>>
  /\ IF caller = "anon"
     THEN /\ last' = Response("createChatSession", 401)
          /\ UNCHANGED <<db, usedIds, timers>>
     ELSE IF caller \notin Users
     THEN /\ last' = Response("createChatSession", 404)
          /\ UNCHANGED <<db, usedIds, timers>>
     ELSE \E sid \in SessionIds \ usedIds :
            /\ db' = [db EXCEPT ![sid] =
                        [present |-> TRUE, userId |-> caller, status |-> "active",
                         messages |-> <<>>, isEmptySession |-> TRUE]]
            /\ usedIds' = usedIds \cup {sid}
            /\ timers' = timers \cup {sid}
            /\ last' = [Response("createChatSession", 201) EXCEPT
                          !.sessionId = sid]

\* sendMessage (therapeutic revision).  Nothing but the outer try/catch
\* stands between a throwing statement and the 500 response.
SendMessageTherapeutic(caller, sid, utter) ==
  LET doc == Doc(db, sid)
  IN /\ UNCHANGED <<usedIds, timers, sessionMemories, prefUpdates, steps>>
     /\ IF caller = "anon"
        THEN /\ last' = Response("sendMessage", 401)
             /\ UNCHANGED <<db, userProgress>>
        ELSE IF ~doc.present
        THEN /\ last' = Response("sendMessage", 404)
             /\ UNCHANGED <<db, userProgress>>
        ELSE IF ~Owns(doc, caller)
        THEN /\ last' = Response("sendMessage", 403)
             /\ UNCHANGED <<db, userProgress>>
        ELSE IF utter.t # "string"
        THEN /\ last' = Response("sendMessage", 500)
             /\ UNCHANGED <<db, userProgress>>
        ELSE /\ TherapeuticTurnAllowed
             /\ \E ext \in TherapeuticExtractions, rep \in TherapeuticReplies :
                  LET a == therapeuticAssessment(ext)
                      text == respondTherapeutic(rep).text
                      u == updateProgress(userProgress[sid], a.f, TextLength(text))
                      userMessage == Message("user", StoredContent(utter.text), a.f)
                      assistantMessage == Message("assistant", StoredContent(text), a.f)
                      saved == ContentValid(utter.text) /\ ContentValid(text)
                  IN IF ext.kind = "throw" \/ contextThrows(a)
                     THEN /\ last' = Ran(500, TRUE, FALSE)
                          /\ UNCHANGED <<db, userProgress>>
                     ELSE IF rep.kind = "throw"
                     THEN /\ last' = Ran(500, TRUE, TRUE)
                          /\ UNCHANGED <<db, userProgress>>
                     ELSE IF u.thrown \/ ~saved
                     THEN /\ last' = Ran(500, TRUE, TRUE)
                          /\ userProgress' = Put(userProgress, sid, u.progress)
                          /\ db' = db
                     ELSE /\ db' = [db EXCEPT ![sid] =
                                      SaveTurn(@, userMessage, assistantMessage)]
                          /\ userProgress' = Put(userProgress, sid, u.progress)
                          /\ last' = [Ran(200, TRUE, TRUE) EXCEPT
                                        !.reply = text, !.analysis = a.f,
                                        !.gaveData = TRUE]

NextTherapeutic ==
  \/ \E caller \in Callers : CreateChatSessionTherapeutic(caller)
  \/ \E sid \in SessionIds : TimerFire(sid)
  \/ \E caller \in Requesters, sid \in RequestIds, utter \in Utterances :
       SendMessageTherapeutic(caller, sid, utter)

\* the therapeutic revision of the controller
SpecTherapeutic == Init /\ [][NextTherapeutic]_vars

\* ------------------------------------------------ the assessment step alone
\* an empty collection; the step is handed one answer of the completion call
InitAnalyze ==
  /\ db = [sid \in SessionIds |-> NoSession]
  /\ InitProcess
  /\ genExtract \in AnalyzeInputs
  /\ analyzeOut = NoAnalyzeOut
  /\ genReply = RThrow
  /\ respOut = NoRespOut

\* analyzeMessageWithMemory on a new memory, and the assessment of the
\* therapeutic revision, on the same answer
Analyze ==
  /\ ~analyzeOut.done
  /\ analyzeOut' =
       [done |-> TRUE,
        memoryRevision |-> analyzeMessageWithMemory(genExtract, NewMemory),
        therapeutic |->
          IF genExtract.kind = "throw"
          THEN [thrown |-> TRUE, isNull |-> FALSE, f |-> EmptyObject]
          ELSE [thrown |-> FALSE,
                isNull |-> therapeuticAssessment(genExtract).isNull,
                f |-> therapeuticAssessment(genExtract).f]]
  /\ UNCHANGED <<db, usedIds, timers, sessionMemories, userProgress, prefUpdates,
                 last, genExtract, genReply, respOut, recorded, calls, deleting>>

SpecAnalyze == InitAnalyze /\ [][Analyze]_vars

\* ----------------------------------------------------- the reply step alone
InitRespond ==
  /\ db = [sid \in SessionIds |-> NoSession]
  /\ InitProcess
  /\ genExtract = XThrow
  /\ analyzeOut = NoAnalyzeOut
  /\ genReply \in RespondInputs
  /\ respOut = NoRespOut

\* generateTherapeuticResponse for a well-formed assessment, and the reply
\* step of the therapeutic revision, on the same answer
Respond ==
  /\ ~respOut.done
  /\ respOut' =
       [done |-> TRUE,
        memoryRevision |-> generateTherapeuticResponse(DefaultAnalysis, genReply),
        therapeutic |-> respondTherapeutic(genReply)]
  /\ UNCHANGED <<db, usedIds, timers, sessionMemories, userProgress, prefUpdates,
                 last, genExtract, analyzeOut, genReply, recorded, calls, deleting>>

SpecRespond == InitRespond /\ [][Respond]_vars

\* ------------------------------------------------------- cold rebuilds
\* an assessment as an earlier revision stored it
LegacyAssessment ==
  [f \in DOMAIN EmptyObject
          \cup {"emotion", "themes", "technique", "progressIndicators"} |->
     CASE f = "emotion" -> Str("sad")
       [] f = "themes" -> Arr(<<Str("work"), Str("family"), Str("health")>>)
       [] f = "technique" -> Str("breathing")
       [] f = "progressIndicators" -> Arr(<<Str("awareness"), Str("coping")>>)
       [] OTHER -> Undef]

\* messages a stored session may hold
StoredMessages ==
  {Message("user", <<"iam">>, FullObject),
   Message("user", <<"direct">>, EmptyObject),
   Message("user", <<"w">>, LegacyAssessment),
   Message("assistant", <<"w">>, FullObject),
   Message("assistant", <<"w">>, LegacyAssessment),
   Message("assistant", <<"w">>, EmptyObject)}

\* The collection holds two sessions of u1 with messages saved by earlier
\* runs of the process; the process has just started.
InitRebuild ==
  /\ db \in [SessionIds ->
               {[present |-> TRUE, userId |-> "u1", status |-> "active",
                 messages |-> messages, isEmptySession |-> messages = <<>>] :
                  messages \in UNION {[1..n -> StoredMessages] : n \in 0..MaxStored}}]
  /\ InitProcess
  /\ genExtract = XThrow
  /\ analyzeOut = NoAnalyzeOut
  /\ genReply = RThrow
  /\ respOut = NoRespOut

\* the process is restarted: its maps and timers are gone
Restart ==
  /\ \E sid \in RequestIds : sessionMemories[sid].present
  /\ sessionMemories' = [sid \in RequestIds |-> NoMemory]
  /\ userProgress' = [sid \in SessionIds |-> NoProgress]
  /\ timers' = {}
  /\ recorded' = [sid \in SessionIds |-> <<>>]
  /\ calls' = [h \in Handlers |-> NoCall]
  /\ deleting' = {}
  /\ UNCHANGED <<db, usedIds, prefUpdates, last, genExtract, analyzeOut,
                 genReply, respOut>>

\* every cache entry is the result of a cold rebuild
NextRebuild ==
  \/ \E caller \in Users, sid \in SessionIds : GetSessionHistory(caller, sid)
  \/ \E caller \in Users, sid \in SessionIds : GetChatSession(caller, sid)
  \/ Restart

SpecRebuild == InitRebuild /\ [][NextRebuild]_vars

\* -------------------------------------------------------- long sessions
\* u1 creates sessions and keeps talking in them, up to MaxGrowth turns a
\* session
NextGrowth ==
  \/ CreateChatSession("u1")
  \/ \E sid \in SessionIds :
       SendTurnWithin("u1", sid, Utterance("string", <<"w">>), "ok",
                      Len(db[sid].messages) < 2 * MaxGrowth)

SpecGrowth == Init /\ [][NextGrowth]_vars

\* the largest bound N the specification gives for a tracked list
ListBound == 25

\* ------------------------------------------------- sessions side by side
\* u1 works in its sessions through the handlers of both revisions; a
\* history read of a session whose turns went through the therapeutic
\* handler rebuilds its memory from cold
NextIsolation ==
  \/ CreateChatSession("u1")
  \/ \E sid \in SessionIds : SendMessage("u1", sid, Utterance("string", <<"w">>))
  \/ \E sid \in SessionIds :
       SendMessageTherapeutic("u1", sid, Utterance("string", <<"w">>))
  \/ \E sid \in SessionIds : GetSessionHistory("u1", sid)
  \/ \E sid \in SessionIds, preferences \in Preferences :
       UpdateUserPreferences("u1", sid, preferences)

SpecIsolation == Init /\ [][NextIsolation]_vars

\* ------------------------------------------------ the progress tracker
\* assessments handed to updateProgress: the intensity is a number, the
\* technique list a list of identifiers or a value that cannot be spread
ProgressAssessments ==
  {[EmptyObject EXCEPT !.emotionalResponse = Obj("e", n),
                       !.recommendedCbtTechniques = techniques] :
     n \in {3, 8},
     techniques \in {Arr(<<Str("mindfulness")>>),
                     Arr(<<Str("mindfulness"), Str("journaling")>>),
                     Num(1)}}

\* ProgressTracker.updateProgress(sessionId, assessment, responseLength);
\* when it throws, the entry keeps what was written before the throw
RecordTurn(sid, f, responseLength) ==
  /\ SumOver([s \in SessionIds |-> Len(recorded[s])], SessionIds) < MaxRecorded
  /\ userProgress' =
       Put(userProgress, sid, updateProgress(userProgress[sid], f, responseLength).progress)
  /\ recorded' = [recorded EXCEPT ![sid] = Append(@, f)]
  /\ UNCHANGED <<db, usedIds, timers, sessionMemories, prefUpdates, last,
                 genExtract, analyzeOut, genReply, respOut, calls, deleting>>

\* the length of the reply is on either side of the insight threshold
NextProgress ==
  \E sid \in SessionIds, f \in ProgressAssessments,
     n \in {InsightAbove, InsightAbove + 1} :
    RecordTurn(sid, f, n)

SpecProgress == Init /\ [][NextProgress]_vars

\* ----------------------------------------- sendMessage, await by await
\* the turns the specification explores, those in flight included: the
\* stored messages and the emotions pushed into the cached memories bound
\* the turns that were saved and those that were not
CallsAllowed ==
  /\ TotalMessages + 2 * Cardinality({h \in Handlers : calls[h].pc # "idle"})
       < 2 * MaxTurns
  /\ SumOver([sid \in RequestIds |-> Len(sessionMemories[sid].emotionalPatterns)],
             RequestIds)
       + Cardinality({h \in Handlers : calls[h].pc \in {"hydrate", "extract"}})
       < MaxTurns

\* sendMessage up to its next await: the checks, findOne, and in
\* getSessionMemory the test of the cache.  On a hit the invocation holds the
\* cached object and goes on to the create call of analyzeMessageWithMemory,
\* whose promise it awaits; on a miss it awaits the findOne of
\* getSessionMemory.
Accept(h, caller, sid, utter) ==
  LET doc == Doc(db, sid)
  IN /\ calls[h].pc = "idle"
     /\ UNCHANGED <<db, usedIds, timers, sessionMemories, userProgress,
                    prefUpdates, genExtract, analyzeOut, genReply, respOut,
                    recorded, deleting>>
     /\ IF caller = "anon"
        THEN /\ last' = Response("sendMessage", 401)
             /\ UNCHANGED calls
        ELSE IF RejectsMessage(utter)
        THEN /\ last' = Response("sendMessage", 400)
             /\ UNCHANGED calls
        ELSE IF ~doc.present
        THEN /\ last' = Response("sendMessage", 404)
             /\ UNCHANGED calls
        ELSE IF ~Owns(doc, caller)
        THEN /\ last' = Response("sendMessage", 403)
             /\ UNCHANGED calls
        ELSE /\ CallsAllowed
             /\ calls' =
                  [calls EXCEPT ![h] =
                     Call(IF ReadsStore(sessionMemories, sid)
                          THEN "hydrate" ELSE "extract",
                          sid, utter.text, Len(doc.messages))]
             /\ UNCHANGED last

\* the rest of getSessionMemory after its findOne: the memory is built from
\* the stored messages and put in the cache, whatever the cache holds by
\* now; an invocation that holds the object the cache held keeps that object
Hydrate(h) ==
  LET sid == calls[h].sid
  IN /\ calls[h].pc = "hydrate"
     /\ sessionMemories' = Put(sessionMemories, sid, RebuildMemory(Doc(db, sid)))
     /\ calls' =
          [k \in Handlers |->
             IF k = h THEN [calls[h] EXCEPT !.pc = "extract"]
             ELSE IF /\ calls[k].pc \in {"extract", "reply"}
                     /\ calls[k].sid = sid
                     /\ ~calls[k].detached
             THEN [calls[k] EXCEPT !.detached = TRUE, !.own = sessionMemories[sid]]
             ELSE calls[k]]
     /\ UNCHANGED <<db, usedIds, timers, userProgress, prefUpdates, last,
                    genExtract, analyzeOut, genReply, respOut, recorded, deleting>>

\* the completion call an invocation awaits returns or throws; nothing in
\* the code makes it do so
Settle(h) ==
  /\ calls[h].pc \in {"extract", "reply"}
  /\ ~calls[h].settled
  /\ IF calls[h].pc = "extract"
     THEN \E ext \in {XFull, XThrow} :
            calls' = [calls EXCEPT ![h].settled = TRUE, ![h].extraction = ext]
     ELSE \E rep \in {Reply("text", <<"w">>), RThrow} :
            calls' = [calls EXCEPT ![h].settled = TRUE, ![h].reply = rep]
  /\ UNCHANGED <<db, usedIds, timers, sessionMemories, userProgress, prefUpdates,
                 last, genExtract, analyzeOut, genReply, respOut, recorded, deleting>>

\* the SessionMemory object an invocation holds
Held(h) ==
  IF calls[h].detached THEN calls[h].own ELSE sessionMemories[calls[h].sid]

\* the invocation goes on as next with the object it holds mutated to memory
Mutate(h, memory, next) ==
  IF calls[h].detached
  THEN /\ calls' = [calls EXCEPT ![h] = IF next.pc = "idle" THEN next
                                        ELSE [next EXCEPT !.own = memory]]
       /\ UNCHANGED sessionMemories
  ELSE /\ calls' = [calls EXCEPT ![h] = next]
       /\ sessionMemories' = Put(sessionMemories, calls[h].sid, memory)

\* a save that writes the messages the invocation fetched, plus its pair,
\* over those of the collection (not the code's)
FetchedBase(doc, seen) == [doc EXCEPT !.messages = SubSeq(@, 1, seen)]

\* what the pushes of a save are applied to: the save sends the two pushed
\* messages as an append to the array in the collection
PushBase(doc, seen) == doc

\* the rest of sendMessage once the reply text is known: push, save, the
\* memory's trust and progress, and the response.  The save is rejected
\* when a pushed message fails validation or the document is no longer in
\* the collection.
Finish(h, text, replyCalled) ==
  LET sid == calls[h].sid
      analysis == calls[h].analysis
      userMessage == Message("user", StoredContent(calls[h].text), analysis)
      assistantMessage == Message("assistant", StoredContent(text), analysis)
      saved == /\ db[sid].present
               /\ ContentValid(calls[h].text)
               /\ ContentValid(text)
  IN IF saved
     THEN /\ db' = [db EXCEPT ![sid] =
                      SaveTurn(PushBase(@, calls[h].seen),
                               userMessage, assistantMessage)]
          /\ Mutate(h, [Held(h) EXCEPT
                          !.trustLevel = Min2(ScalarMax, @ + TrustPerTurn),
                          !.sessionProgress = Min2(ScalarMax, @ + ProgressPerTurn)],
                    NoCall)
          /\ last' = [Ran(200, TRUE, replyCalled) EXCEPT
                        !.reply = text, !.analysis = analysis,
                        !.gaveData = TRUE]
     ELSE /\ calls' = [calls EXCEPT ![h] = NoCall]
          /\ UNCHANGED <<db, sessionMemories>>
          /\ last' = HardFailure(TRUE, replyCalled)

\* the continuation of an invocation whose awaited call has settled: after
\* the extraction the rest of analyzeMessageWithMemory and
\* generateTherapeuticResponse up to its create call; after the reply the
\* rest of generateTherapeuticResponse and of sendMessage
Continue(h) ==
  /\ calls[h].pc \in {"extract", "reply"}
  /\ calls[h].settled
  /\ UNCHANGED <<usedIds, timers, userProgress, prefUpdates,
                 genExtract, analyzeOut, genReply, respOut, recorded, deleting>>
  /\ IF calls[h].pc = "extract"
     THEN LET r == analyzeMessageWithMemory(calls[h].extraction, Held(h))
              g == generateTherapeuticResponse(r.analysis, RThrow)
          IN /\ g.called
             /\ Mutate(h, r.memory,
                       [calls[h] EXCEPT !.pc = "reply", !.settled = FALSE,
                                        !.analysis = r.analysis])
             /\ UNCHANGED <<db, last>>
     ELSE LET g == generateTherapeuticResponse(calls[h].analysis, calls[h].reply)
          IN Finish(h, g.text, g.called)

\* the timer callback of the post-save hook up to its await: it re-reads
\* the session and, if the session is still flagged empty, calls deleteOne
TimerRead(sid) ==
  /\ sid \in timers
  /\ timers' = timers \ {sid}
  /\ deleting' = IF db[sid].present /\ db[sid].isEmptySession
                 THEN deleting \cup {sid} ELSE deleting
  /\ UNCHANGED <<db, usedIds, sessionMemories, userProgress, prefUpdates, last,
                 genExtract, analyzeOut, genReply, respOut, recorded, calls>>

\* the deleteOne of the timer callback reaches the collection: it removes
\* the document by its _id
TimerDelete(sid) ==
  /\ sid \in deleting
  /\ deleting' = deleting \ {sid}
  /\ db' = [db EXCEPT ![sid] = NoSession]
  /\ UNCHANGED <<usedIds, timers, sessionMemories, userProgress, prefUpdates,
                 last, genExtract, analyzeOut, genReply, respOut, recorded, calls>>

NextCalls ==
  \/ \E h \in Handlers, caller \in Users, sid \in SessionIds,
        utter \in {Utterance("string", <<"w">>), MissingUtterance} :
       Accept(h, caller, sid, utter)
  \/ \E h \in Handlers : Hydrate(h)
  \/ \E h \in Handlers : Settle(h)
  \/ \E h \in Handlers : Continue(h)
  \/ CreateChatSession("u1")

\* the event loop runs the continuation of every settled await, and the
\* collection answers every findOne
SpecCalls ==
  /\ Init
  /\ [][NextCalls]_vars
  /\ \A h \in Handlers : WF_vars(Continue(h)) /\ WF_vars(Hydrate(h))

\* ------------------------------------------------ trust and progress
\* turns of the session and preference updates in the specification of the
\* two scalars
MaxScalarTurns == 26
MaxScalarPrefs == 6

\* u1 keeps talking in its session and sharing preferences; the process
\* restarts now and then, and the next history read rebuilds the memory
NextScalars ==
  \/ SendTurnWithin("u1", "s1", Utterance("string", <<"w">>), "ok",
                    Len(db["s1"].messages) < 2 * MaxScalarTurns)
  \/ \E preferences \in Preferences :
       UpdateUserPreferencesWithin("u1", "s1", preferences,
                                   prefUpdates < MaxScalarPrefs)
  \/ GetSessionHistory("u1", "s1")
  \/ Restart

SpecScalars == Init /\ [][NextScalars]_vars

\* turns of u1 on the stored session, some with a message that is blank
\* once trimmed, which the save rejects
NextSaves ==
  \/ \E h \in Handlers, utter \in {Utterance("string", <<"w">>), BlankUtterance} :
       Accept(h, "u1", "s1", utter)
  \/ \E h \in Handlers : Hydrate(h)
  \/ \E h \in Handlers : Settle(h)
  \/ \E h \in Handlers : Continue(h)

SpecSaves ==
  /\ Init
  /\ [][NextSaves]_vars
  /\ \A h \in Handlers : WF_vars(Continue(h)) /\ WF_vars(Hydrate(h))

\* ------------------------------------------------ auto-cleanup and turns
\* sessions are created, their auto-delete timers run in two steps around
\* the await of deleteOne, and turns are sent meanwhile
NextCleanup ==
  \/ CreateChatSession("u1")
  \/ \E h \in Handlers, sid \in SessionIds :
       Accept(h, "u1", sid, Utterance("string", <<"w">>))
  \/ \E h \in Handlers : Hydrate(h)
  \/ \E h \in Handlers : Settle(h)
  \/ \E h \in Handlers : Continue(h)
  \/ \E sid \in SessionIds : TimerRead(sid)
  \/ \E sid \in SessionIds : TimerDelete(sid)

SpecCleanup == Init /\ [][NextCleanup]_vars

\* ------------------------------------------- operations the code lacks
\* shouldClose(utterance): the utterance holds a farewell phrase
ShouldClose(text) == \E i \in 1..Len(text) : text[i] = "bye"

\* the denylist scan: the text holds medication language
Denylisted(text) == \E i \in 1..Len(text) : text[i] = "rx"

\* -------------------------------------------------------------- properties
\* C1: in every step the messages already persisted for a session remain,
\* unchanged and in the same order, the first messages of the session after
\* the step (a turn only adds its pair at the end), and a successful
\* getSessionHistory returns the persisted messages in that order.
AppendOnlyHistory ==
  [][/\ \A sid \in SessionIds :
          (db[sid].present /\ db'[sid].present) =>
             /\ Len(db[sid].messages) <= Len(db'[sid].messages)
             /\ SubSeq(db'[sid].messages, 1, Len(db[sid].messages))
                  = db[sid].messages
     /\ \A caller \in Users, sid \in SessionIds :
          (/\ last'.op = "getSessionHistory"
           /\ last'.code = 200
           /\ GetSessionHistory(caller, sid))
          => last'.messages = db[sid].messages]_vars

\* a history of two turns has been returned
HistoryOfTwoTurns ==
  /\ last.op = "getSessionHistory"
  /\ last.code = 200
  /\ Len(last.messages) = 4
  /\ last.messages[1].content # last.messages[3].content

\* C2: a turn of the therapeutic revision sent by the owner of an existing
\* session with a non-empty text utterance ends with status 200 and a
\* non-empty reply, whatever the two completion calls answer.
TurnAlwaysReplies ==
  [][\A caller \in Users, sid \in SessionIds, utter \in ValidUtterances :
       (/\ db[sid].present
        /\ db[sid].userId = caller
        /\ last'.op = "sendMessage"
        /\ SendMessageTherapeutic(caller, sid, utter))
       => (last'.code = 200 /\ last'.reply # <<>>)]_vars

\* C3: whatever the completion call of the assessment step answers, the
\* step returns (it does not throw) an assessment whose fields are all
\* present and well typed: in the memory revision a string emotion, a
\* number intensity, a list of themes, a number risk, a list of techniques,
\* a list of patterns and a string focus; in the therapeutic revision an
\* emotional response object and lists of techniques, distortions and
\* thoughts.
AnalyzeWellTyped ==
  analyzeOut.done =>
    LET a == analyzeOut.memoryRevision.analysis
        t == analyzeOut.therapeutic
    IN /\ a.emotionalState.t = "string"
       /\ a.intensity.t = "number"
       /\ a.primaryThemes.t = "array"
       /\ a.riskLevel.t = "number"
       /\ a.specificTechniques.t = "array"
       /\ a.cognitivePatterns.t = "array"
       /\ a.therapeuticFocus.t = "string"
       /\ ~t.thrown
       /\ ~t.isNull
       /\ t.f.emotionalResponse.t = "object"
       /\ t.f.recommendedCbtTechniques.t = "array"
       /\ t.f.cognitiveDistortions.t = "array"
       /\ t.f.automaticThoughts.t = "array"

\* C4: the reply step returns non-empty text for every answer of the
\* completion call: generateTherapeuticResponse for a thrown call, an empty
\* text and any other text, and the cleaning of the therapeutic revision
\* for every text the call returns (its thrown call is the matter of C2).
RespondNonEmpty ==
  respOut.done =>
    /\ respOut.memoryRevision.text # <<>>
    /\ ~respOut.therapeutic.thrown => respOut.therapeutic.text # <<>>

\* C5: no reply the reply step returns holds denylisted language, whatever
\* text the completion call returned.
NoDenylistedReply ==
  respOut.done =>
    /\ ~Denylisted(respOut.memoryRevision.text)
    /\ ~Denylisted(respOut.therapeutic.text)

\* C6: a turn by the owner on an active session whose utterance is a
\* closing one makes no completion call for the reply and leaves the
\* session's status completed.
ClosingTurnCompletes ==
  [][\A caller \in Users, sid \in SessionIds, utter \in ValidUtterances :
       (/\ ShouldClose(utter.text)
        /\ db[sid].present
        /\ db[sid].userId = caller
        /\ db[sid].status = "active"
        /\ last'.op = "sendMessage"
        /\ SendMessage(caller, sid, utter))
       => (~last'.replyCalled /\ db'[sid].status = "completed")]_vars

\* C7: no step changes the status of a session other than from active to
\* completed; a completed or archived session keeps its status.
StatusTerminal ==
  [][\A sid \in SessionIds :
       (db[sid].present /\ db'[sid].present) =>
          \/ db'[sid].status = db[sid].status
          \/ db[sid].status = "active" /\ db'[sid].status = "completed"]_vars

\* a turn has been saved on a completed or archived session
TurnOnClosedSession ==
  \E sid \in SessionIds :
    /\ db[sid].present
    /\ db[sid].status \in {"completed", "archived"}
    /\ Len(db[sid].messages) >= 2

\* C8: a turn, a history read, a fetch of the session or a preference
\* update by an authenticated caller who is not the owner of the session
\* answers 403, returns no messages or memory, and leaves the session's
\* persisted messages and its SessionMemory as they were.
OwnerOnly ==
  [][\A caller \in Users, sid \in SessionIds :
       (db[sid].present /\ db[sid].userId # caller) =>
          LET rejected ==
                /\ last'.code = 403
                /\ ~last'.gaveData
                /\ db'[sid].messages = db[sid].messages
                /\ sessionMemories'[sid] = sessionMemories[sid]
          IN /\ \A utter \in ValidUtterances :
                  SendMessage(caller, sid, utter) => rejected
             /\ GetSessionHistory(caller, sid) => rejected
             /\ GetChatSession(caller, sid) => rejected
             /\ \A preferences \in Preferences :
                  UpdateUserPreferences(caller, sid, preferences) => rejected]_vars

\* C9: a turn by the owner of an existing session whose utterance is
\* missing, not a string, empty or blank answers 400, makes no completion
\* call, and leaves the persisted messages and the SessionMemory unchanged.
InvalidUtteranceRejected ==
  [][\A caller \in Users, sid \in SessionIds,
        utter \in InvalidUtterances \cup {BlankUtterance} :
       (/\ db[sid].present
        /\ db[sid].userId = caller
        /\ last'.op = "sendMessage"
        /\ SendMessage(caller, sid, utter))
       => /\ last'.code = 400
          /\ ~last'.extractCalled
          /\ ~last'.replyCalled
          /\ db' = db
          /\ sessionMemories' = sessionMemories]_vars

\* C10: a turn with a text utterance by an authenticated caller answers 404
\* when no session has the identifier and 403 when the session belongs to
\* someone else; in both cases no completion call is made and the persisted
\* sessions, the SessionMemory cache and the progress map stay as they were.
NotFoundForbidden ==
  [][\A caller \in Users, sid \in RequestIds, utter \in ValidUtterances :
       (/\ ~Doc(db, sid).present \/ Doc(db, sid).userId # caller
        /\ last'.op = "sendMessage"
        /\ SendMessage(caller, sid, utter))
       => /\ last'.code = IF Doc(db, sid).present THEN 403 ELSE 404
          /\ ~last'.extractCalled
          /\ ~last'.replyCalled
          /\ db' = db
          /\ sessionMemories' = sessionMemories
          /\ userProgress' = userProgress]_vars

\* a turn on someone else's session, which holds a saved turn and has a
\* cached memory, was answered 403
ForbiddenTurnSeen ==
  /\ last.op = "sendMessage"
  /\ last.code = 403
  /\ \E sid \in SessionIds :
       Len(db[sid].messages) >= 2 /\ sessionMemories[sid].present

\* C11: when the findOne of the handler, the findOne of getSessionMemory
\* (made on a cache miss) or the save of the pair rejects during a turn by
\* the owner with a text utterance, the caller gets status 500 and no reply
\* text.
FailureSurfaced ==
  [][\A caller \in Users, sid \in SessionIds, utter \in ValidUtterances,
        store \in StoreOutcomes \ {"ok"} :
       (/\ db[sid].present
        /\ db[sid].userId = caller
        /\ store = "rebuildFails" => ~sessionMemories[sid].present
        /\ last'.op = "sendMessage"
        /\ SendTurn(caller, sid, utter, store))
       => (last'.code = 500 /\ last'.reply = <<>> /\ ~last'.gaveData)]_vars

\* the save of a pair was rejected after both completion calls were made
SaveRejectedSeen ==
  /\ last.op = "sendMessage"
  /\ last.code = 500
  /\ last.extractCalled
  /\ last.replyCalled

\* C12: whenever the cache holds the SessionMemory of a stored session, a
\* cold rebuild from the session's stored messages gives that same memory:
\* the same lists, preferences, last emotion and technique, trust and
\* progress.
CacheEqualsRebuild ==
  \A sid \in SessionIds :
    (db[sid].present /\ sessionMemories[sid].present) =>
       RebuildMemory(db[sid]) = sessionMemories[sid]

ListsBounded ==
  \A sid \in SessionIds :
    /\ Len(sessionMemories[sid].emotionalPatterns) <= ListBound
    /\ Len(sessionMemories[sid].conversationThemes) <= ListBound
    /\ Len(sessionMemories[sid].therapeuticTechniques) <= ListBound

\* C16: a turn (of either revision), a history read (with the cold rebuild
\* it makes on a cache miss) or a preference update on one session leaves
\* the SessionMemory and the progress entry of every other session as they
\* were.
SessionsIsolated ==
  [][\A sid \in SessionIds :
       (\/ /\ last'.op = "sendMessage"
           /\ \/ SendMessage("u1", sid, Utterance("string", <<"w">>))
              \/ SendMessageTherapeutic("u1", sid, Utterance("string", <<"w">>))
        \/ /\ last'.op = "getSessionHistory"
           /\ GetSessionHistory("u1", sid)
        \/ /\ last'.op = "updateUserPreferences"
           /\ \E preferences \in Preferences :
                UpdateUserPreferences("u1", sid, preferences))
       => \A other \in SessionIds \ {sid} :
            /\ sessionMemories'[other] = sessionMemories[other]
            /\ userProgress'[other] = userProgress[other]]_vars

\* both sessions have a memory and a progress entry, the two memories
\* differ, and the last request was a successful turn
TwoSessionsWorked ==
  /\ last.op = "sendMessage"
  /\ last.code = 200
  /\ sessionMemories["s1"].present
  /\ sessionMemories["s2"].present
  /\ sessionMemories["s1"] # sessionMemories["s2"]
  /\ \E sid \in SessionIds : userProgress[sid].present

\* the technique identifiers of the assessments recorded for a session
RecordedTechniques(sid) ==
  UNION {IF recorded[sid][k].recommendedCbtTechniques.t = "array"
         THEN {recorded[sid][k].recommendedCbtTechniques.a[j] :
                 j \in 1..Len(recorded[sid][k].recommendedCbtTechniques.a)}
         ELSE {} : k \in 1..Len(recorded[sid])}

\* C17: getProgressSummary of a session returns null exactly when
\* updateProgress has not been called for it in this process; after k calls
\* its sessionsCompleted is k and its techniquesExperienced is the number
\* of distinct technique identifiers over the k recorded assessments.
SummaryCounts ==
  \A sid \in SessionIds :
    LET summary == getProgressSummary(userProgress[sid])
    IN /\ summary.isNull <=> recorded[sid] = <<>>
       /\ ~summary.isNull =>
            /\ summary.sessionsCompleted = Len(recorded[sid])
            /\ summary.techniquesExperienced = Cardinality(RecordedTechniques(sid))

\* three turns were recorded for a session, two of them with the same
\* technique, while the other session has none
RepeatedTechniqueRecorded ==
  /\ Len(recorded["s1"]) = 3
  /\ recorded["s2"] = <<>>
  /\ Len(userProgress["s1"].techniquesUsed) > Cardinality(RecordedTechniques("s1"))
  /\ Cardinality(RecordedTechniques("s1")) = 2

\* C18: for a session with a recorded turn the trend of getProgressSummary
\* is 'improving' exactly when the intensity of the most recent recorded
\* assessment is lower than that of the first, and 'stable' otherwise.
TrendFirstToLast ==
  \A sid \in SessionIds :
    recorded[sid] # <<>> =>
      LET first == recorded[sid][1].emotionalResponse.n
          latest == recorded[sid][Len(recorded[sid])].emotionalResponse.n
      IN getProgressSummary(userProgress[sid]).trend
           = IF latest < first THEN "improving" ELSE "stable"

\* after a high, a low and a high intensity the trend is stable although
\* the session went through a lower intensity
TrendBackToStable ==
  /\ Len(recorded["s1"]) = 3
  /\ recorded["s1"][1].emotionalResponse.n = 8
  /\ recorded["s1"][2].emotionalResponse.n = 3
  /\ recorded["s1"][3].emotionalResponse.n = 8
  /\ getProgressSummary(userProgress["s1"]).trend = "stable"

TurnEventuallyAnswered ==
  \A h \in Handlers : (calls[h].pc # "idle") ~> (calls[h].pc = "idle")

\* C30: a turn sent to a session whose status is completed or archived
\* appends nothing to the messages of the session and changes none of its
\* memory.
ClosedSessionUntouched ==
  [][\A sid \in SessionIds :
       (/\ db[sid].present
        /\ db[sid].status \in {"completed", "archived"}
        /\ last'.op = "sendMessage"
        /\ db'[sid].present)
       => /\ db'[sid].messages = db[sid].messages
          /\ sessionMemories'[sid] = sessionMemories[sid]]_vars

\* C29: the cache holds a SessionMemory only under identifiers of sessions
\* that are in the collection: no operation leaves an entry for an
\* identifier without a session, and none remains once a session is deleted.
CacheOnlyForStored ==
  \A sid \in RequestIds : sessionMemories[sid].present => Doc(db, sid).present

\* C27: once the assessment step has returned, the emotion it appended to
\* the emotion list of the SessionMemory and stored as the last emotional
\* state is the emotion of the assessment it returned, whatever the
\* completion call answered; and when the call failed the SessionMemory is
\* as it was.
AnalyzeEmotionAgrees ==
  analyzeOut.done =>
    LET r == analyzeOut.memoryRevision
    IN /\ genExtract.kind = "throw" => r.memory = NewMemory
       /\ r.memory.emotionalPatterns # <<>> =>
            /\ r.memory.emotionalPatterns = <<r.analysis.emotionalState>>
            /\ r.memory.lastEmotionalState = r.analysis.emotionalState

\* C26: when the save of the pair of a turn fails, the cached SessionMemory
\* and the progress accumulator of every session are what they were before
\* the turn: the turn leaves no emotion, theme or technique, no change of
\* trust or progress and no recorded turn.
SaveFailureLeavesMemory ==
  [][\A caller \in Users, sid \in SessionIds, utter \in ValidUtterances :
       (/\ last'.op = "sendMessage"
        /\ last'.code = 500
        /\ last'.extractCalled
        /\ SendTurn(caller, sid, utter, "saveFails"))
       => /\ sessionMemories' = sessionMemories
          /\ userProgress' = userProgress]_vars

\* C23: a cold rebuild of a stored session of k turns folds the assessment
\* of each turn once: the rebuilt emotion list has k entries, the theme list
\* at most 2k and the technique list at most k; the assessment stored with
\* the user message of a turn is not folded besides that of its reply.
RebuildFoldsOncePerTurn ==
  \A sid \in SessionIds :
    db[sid].present =>
      LET k == Len(db[sid].messages) \div 2
          rebuilt == RebuildMemory(db[sid])
      IN /\ Len(rebuilt.emotionalPatterns) = k
         /\ Len(rebuilt.conversationThemes) <= 2 * k
         /\ Len(rebuilt.therapeuticTechniques) <= k

\* C24: in every reachable state the trust level and the session progress
\* of every SessionMemory lie between 0 and 100: after the creation of an
\* empty memory, after a cold rebuild of a session of any length, and after
\* any number of turns and preference updates.
ScalarsInRange ==
  \A sid \in RequestIds :
    sessionMemories[sid].present =>
      /\ sessionMemories[sid].trustLevel \in 0..ScalarMax
      /\ sessionMemories[sid].sessionProgress \in 0..ScalarMax

\* the memory of a session long enough for a rebuild to pass both caps was
\* rebuilt, and both scalars stand at the cap
ScalarsAtCap ==
  /\ last.op = "getSessionHistory"
  /\ Len(db["s1"].messages) = 2 * MaxScalarTurns
  /\ sessionMemories["s1"].present
  /\ sessionMemories["s1"].trustLevel = ScalarMax
  /\ sessionMemories["s1"].sessionProgress = ScalarMax

\* C21: in every step, also when two turns on one session are interleaved,
\* the stored messages of a session stay as they are or gain, at the end,
\* the pair of the turn answered in that step: the user message followed by
\* the reply returned for it; and every turn answered with a reply adds its
\* pair.  So the sequence is made of whole pairs, two messages for each turn
\* that returned a reply, none lost, split or overwritten.
PairsAppendedWhole ==
  [][\A sid \in SessionIds :
       LET before == db[sid].messages
           after == db'[sid].messages
           n == Len(db[sid].messages)
       IN /\ (db[sid].present /\ db'[sid].present) =>
               \/ after = before
               \/ /\ last'.op = "sendMessage"
                  /\ last'.code = 200
                  /\ Len(after) = n + 2
                  /\ SubSeq(after, 1, n) = before
                  /\ after[n + 1].role = "user"
                  /\ after[n + 2].role = "assistant"
                  /\ after[n + 2].content = StoredContent(last'.reply)
                  /\ after[n + 1].analysis = last'.analysis
                  /\ after[n + 2].analysis = last'.analysis
          /\ \A h \in Handlers :
               (/\ calls[h].pc = "reply"
                /\ calls[h].sid = sid
                /\ calls'[h].pc = "idle"
                /\ last'.code = 200)
               => Len(after) = n + 2]_vars

\* a turn is in flight on a session to which another turn has added its
\* pair since the first one fetched the session
TurnsInterleaved ==
  \E h \in Handlers :
    /\ calls[h].pc = "reply"
    /\ calls[h].settled
    /\ db[calls[h].sid].present
    /\ calls[h].seen < Len(db[calls[h].sid].messages)

\* C22: every update an invocation makes to the SessionMemory of its
\* session lands on the object the cache holds, also when two invocations
\* found the cache cold: no invocation goes on with an object that another
\* invocation's rebuild has replaced in the cache.
UpdatesLandInCache ==
  [][\A h \in Handlers :
       (/\ calls[h].pc = "extract"
        /\ calls[h].settled
        /\ calls'[h].pc = "reply")
       => ~calls[h].detached]_vars

\* C25: the steps of a turn come in one order: the memory is in the cache
\* before the extraction call is made, the reply call is made only once the
\* extraction call has settled, the turn is answered only once the reply
\* call has settled, and a turn answered with a reply has its pair at the
\* end of the stored messages.
TurnStepsInOrder ==
  [][\A h \in Handlers :
       /\ (calls[h].pc # "extract" /\ calls'[h].pc = "extract")
            => /\ calls[h].pc \in {"idle", "hydrate"}
               /\ sessionMemories'[calls'[h].sid].present
       /\ (calls[h].pc # "reply" /\ calls'[h].pc = "reply")
            => calls[h].pc = "extract" /\ calls[h].settled
       /\ (calls[h].pc \notin {"idle", "hydrate"} /\ calls'[h].pc = "idle")
            => /\ calls[h].pc = "reply"
               /\ calls[h].settled
               /\ last'.op = "sendMessage"
               /\ last'.code = 200 =>
                    LET after == db'[calls[h].sid].messages
                    IN /\ db'[calls[h].sid].present
                       /\ Len(after) >= 2
                       /\ after[Len(after) - 1] =
                            Message("user", StoredContent(calls[h].text),
                                    last'.analysis)
                       /\ after[Len(after)] =
                            Message("assistant", StoredContent(last'.reply),
                                    last'.analysis)]_vars

\* a turn whose save was rejected has just been answered 500, and the
\* stored messages are those of the turn answered before it
UnsavedTurnFailed ==
  /\ last.op = "sendMessage"
  /\ last.code = 500
  /\ last.replyCalled
  /\ \E sid \in SessionIds : Len(db[sid].messages) = 2

\* C28: a stored session holding a message with content is never removed:
\* no step takes a session away whose messages include one that is not
\* empty once trimmed, whatever the order of the timer's re-read, its
\* delete and the turns.
PopulatedSessionKept ==
  [][\A sid \in SessionIds :
       (db[sid].present /\ HasValidMessages(db[sid])) => db'[sid].present]_vars

=============================================================================
